---------------------------- MODULE Spec2Model ----------------------------
(***************************************************************************)
(* A model of the tile loading and caching core of deck.gl-raster:         *)
(*   - LRUTileCache   (src/src/web-mercator.ts, class LRUTileCache)        *)
(*   - tile arithmetic (src/src/web-mercator.ts, tile-prioritizer part)    *)
(*   - TileLoader     (src/src/tile-loader.ts)                             *)
(*                                                                         *)
(* Several state machines share the module.  Spec / SpecNoClear / ViewSpec *)
(* / OrderSpec drive a TileLoader (which owns a cache); CacheSpec and      *)
(* S1Spec drive a stand-alone LRUTileCache through its public methods;     *)
(* ParentSpec, KeySpec, ParseSpec, ConverterSpec, PrioSpec, BfsSpec and    *)
(* RegionSpec each apply one function to arguments drawn from a bounded    *)
(* set.                                                                    *)
(***************************************************************************)
EXTENDS Integers, Sequences, FiniteSets, Bags, TLC

VARIABLES
    tiles,            \* TileLoader.tiles: key -> record (Map<string, TileData>)
    loadQueue,        \* TileLoader.loadQueue: sequence of keys
    loadingTiles,     \* TileLoader.loadingTiles: set of keys
    loadGeneration,   \* TileLoader.loadGeneration
    lastZoom,         \* TileLoader.lastZoom
    panDebounceTimer, \* the pending pan-debounce callback, or NoTimer
    zoomTimers,       \* the pending zoom-debounce callbacks, oldest first
    zoomHandleLive,   \* TRUE iff this.zoomDebounceTimer names the newest pending one
    isZooming,        \* TileLoader.isZooming
    cache,            \* TileLoader.cache: an LRUTileCache
    outstanding,      \* bag of LoadTile calls awaiting completion
    resets,           \* number of handleZoomChange() and clear() calls so far
    lru,              \* a stand-alone LRUTileCache (CacheSpec)
    call              \* the scripted call under examination: its arguments,
                      \* its position and, once it has returned, its result

vars == << tiles, loadQueue, loadingTiles, loadGeneration, lastZoom,
           panDebounceTimer, zoomTimers, zoomHandleLive, isZooming, cache,
           outstanding, resets, lru, call >>

loaderVars == << tiles, loadQueue, loadingTiles, loadGeneration, lastZoom,
                 panDebounceTimer, zoomTimers, zoomHandleLive, isZooming,
                 cache, outstanding, resets >>

-----------------------------------------------------------------------------
(* Bounds of the model *)

\* zoom levels 0..MaxZoom; the world is a 2^MaxZoom x 2^MaxZoom grid of cells
MaxZoom == 1
\* generation resets (calls of handleZoomChange and of clear) explored
MaxResets == 3
\* LoadTile calls awaiting completion at one time
MaxOutstanding == 3
\* cache accesses (accessCounter) explored in the loader and in the cache
MaxAccess == 3
\* cache lookups (hits + misses) explored
MaxGets == 1
\* evictions counted
MaxEvictions == 2
\* number of distinct payloads LoadTile may return
NumPayloads == 1
\* maxConcurrentLoads of the loader under test (TileLoaderConfig)
maxConcurrentLoads == 2
\* maxStartsPerFrame of the loader under test (TileLoaderConfig)
maxStartsPerFrame == 1
\* DEFAULT_CONFIG.cacheSizeMB
cacheSizeMB == 50
\* maxSizeMB of the stand-alone cache
lruSizeMB == 1
\* keys used with the stand-alone cache: "0/0/0" .. "0/0/(NumCacheKeys-1)"
NumCacheKeys == 4
\* accesses (accessCounter) explored in the stand-alone cache
MaxLruAccess == 5
\* generations 0..MaxLruGen used with the stand-alone cache
MaxLruGen == 1
\* zoom-debounce callbacks pending at one time
MaxZoomTimers == 2

Payloads == 1..NumPayloads
Min(a, b) == IF a < b THEN a ELSE b
Max(a, b) == IF a < b THEN b ELSE a

-----------------------------------------------------------------------------
(* LRUTileCache *)

\* new Map()
EmptyMap == [j \in {} |-> 0]
\* f with key k (re)bound to v
Put(f, k, v) == [j \in (DOMAIN f) \cup {k} |-> IF j = k THEN v ELSE f[j]]
\* f without key k
Remove(f, k) == [j \in (DOMAIN f) \ {k} |-> f[j]]

RECURSIVE SumSizes(_, _)
\* sum of size over the entries whose keys are in S
SumSizes(entries, S) ==
    IF S = {} THEN 0
    ELSE LET k == CHOOSE j \in S : TRUE
         IN entries[k].size + SumSizes(entries, S \ {k})

\* constructor(maxSizeMB)
NewCache(maxSizeMB) ==
    [ entries       |-> EmptyMap,
      accessCounter |-> 0,
      totalSize     |-> 0,
      maxSize       |-> maxSizeMB * 1024 * 1024,
      stats         |-> [ entries |-> 0, totalSize |-> 0,
                          maxSize |-> maxSizeMB * 1024 * 1024,
                          hits |-> 0, misses |-> 0, evictions |-> 0 ] ]

\* has(key)
CacheHas(c, key) == key \in DOMAIN c.entries

\* updateStats()
UpdateStats(c) ==
    [c EXCEPT !.stats.entries = Cardinality(DOMAIN c.entries),
              !.stats.totalSize = c.totalSize]

\* faulty variant of LruKey: the comparison of evictLRU reversed (newest entry chosen)
LruKeyNewest(c) ==
    CHOOSE k \in DOMAIN c.entries :
        \A j \in DOMAIN c.entries : c.entries[k].lastAccess >= c.entries[j].lastAccess

\* the key evictLRU() selects: strictly smallest lastAccess (lastAccess values
\* are pairwise distinct, see LastAccessDistinct), none for an empty map
LruKey(c) ==
    CHOOSE k \in DOMAIN c.entries :
        \A j \in DOMAIN c.entries : c.entries[k].lastAccess <= c.entries[j].lastAccess

\* faulty variant of EvictLRU: the eviction is not counted
EvictLRUNoCount(c) ==
    IF DOMAIN c.entries = {} THEN c
    ELSE LET lruKey == LruKey(c)
         IN [c EXCEPT !.totalSize = c.totalSize - c.entries[lruKey].size,
                      !.entries = Remove(c.entries, lruKey)]

\* evictLRU()
EvictLRU(c) ==
    IF DOMAIN c.entries = {} THEN c
    ELSE LET lruKey == LruKey(c)
         IN [c EXCEPT !.totalSize = c.totalSize - c.entries[lruKey].size,
                      !.entries = Remove(c.entries, lruKey),
                      !.stats.evictions = c.stats.evictions + 1]

\* faulty variant of EvictLoop: "if" in place of "while" (at most one eviction per set)
EvictOnce(c) ==
    IF c.totalSize > c.maxSize /\ Cardinality(DOMAIN c.entries) > 1
    THEN EvictLRU(c)
    ELSE c

RECURSIVE EvictLoopToEmpty(_)
\* faulty variant of EvictLoop: the loop does not stop at the last entry
EvictLoopToEmpty(c) ==
    IF c.totalSize > c.maxSize /\ DOMAIN c.entries # {}
    THEN EvictLoopToEmpty(EvictLRU(c))
    ELSE c

RECURSIVE EvictLoop(_)
\* while (totalSize > maxSize && entries.size > 1) evictLRU()
EvictLoop(c) ==
    IF c.totalSize > c.maxSize /\ Cardinality(DOMAIN c.entries) > 1
    THEN EvictLoop(EvictLRU(c))
    ELSE c

\* faulty variant of CacheSet: the old size of a replaced entry is not subtracted
CacheSetNoSubtract(c, key, value, size, generation) ==
    LET entry == [ value |-> value, size |-> size,
                   lastAccess |-> c.accessCounter + 1,
                   generation |-> generation ]
        c1    == [c EXCEPT !.accessCounter = c.accessCounter + 1,
                           !.entries = Put(c.entries, key, entry),
                           !.totalSize = c.totalSize + size]
    IN UpdateStats(EvictLoop(c1))

\* set(key, value, size, generation)
CacheSet(c, key, value, size, generation) ==
    LET base  == IF CacheHas(c, key) THEN c.totalSize - c.entries[key].size
                 ELSE c.totalSize
        entry == [ value |-> value, size |-> size,
                   lastAccess |-> c.accessCounter + 1,
                   generation |-> generation ]
        c1    == [c EXCEPT !.accessCounter = c.accessCounter + 1,
                           !.entries = Put(c.entries, key, entry),
                           !.totalSize = base + size]
    IN UpdateStats(EvictLoop(c1))

\* get(key): the cache after the call
CacheGet(c, key) ==
    IF CacheHas(c, key)
    THEN [c EXCEPT !.accessCounter = c.accessCounter + 1,
                   !.entries[key].lastAccess = c.accessCounter + 1,
                   !.stats.hits = c.stats.hits + 1]
    ELSE [c EXCEPT !.stats.misses = c.stats.misses + 1]

\* get(key): the value returned (0 stands for undefined)
CacheGetValue(c, key) == IF CacheHas(c, key) THEN c.entries[key].value ELSE 0

\* delete(key)
CacheDelete(c, key) ==
    IF CacheHas(c, key)
    THEN UpdateStats([c EXCEPT !.totalSize = c.totalSize - c.entries[key].size,
                               !.entries = Remove(c.entries, key)])
    ELSE c

\* clear()
CacheClear(c) ==
    UpdateStats([c EXCEPT !.entries = EmptyMap, !.totalSize = 0, !.accessCounter = 0])

RECURSIVE DeleteAll(_, _)
\* for (const key of keysToDelete) this.delete(key)
DeleteAll(c, S) ==
    IF S = {} THEN c
    ELSE LET k == CHOOSE j \in S : TRUE
         IN DeleteAll(CacheDelete(c, k), S \ {k})

\* faulty variant of InvalidateOldGenerations: the previous generation is kept
InvalidateOlderThanPrevious(c, currentGeneration) ==
    DeleteAll(c, {k \in DOMAIN c.entries :
                     c.entries[k].generation < currentGeneration - 1})

\* invalidateOldGenerations(currentGeneration)
InvalidateOldGenerations(c, currentGeneration) ==
    DeleteAll(c, {k \in DOMAIN c.entries : c.entries[k].generation < currentGeneration})

-----------------------------------------------------------------------------
(* Tile arithmetic (tile-prioritizer part of web-mercator.ts)               *)
(*                                                                         *)
(* Longitudes and latitudes are represented by their projected position on *)
(* a grid of Span x Span half-cells of the finest zoom level (west and     *)
(* north are 0), so that lngLatToTile's floor((pos / Span) * 2^zoom) is    *)
(* integer arithmetic.  A tile key "z/x/y" is represented by <<z, x, y>>.  *)

Span == 2 * (2 ^ MaxZoom)

\* tileKey(x, y, z)
TileKey(x, y, z) == << z, x, y >>

\* lngLatToTile(lng, lat, zoom)
LngLatToTile(lng, lat, zoom) ==
    [ x |-> (lng * (2 ^ zoom)) \div Span,
      y |-> (lat * (2 ^ zoom)) \div Span,
      z |-> zoom ]

\* getViewportCenterTile(bounds, zoom)
GetViewportCenterTile(bounds, zoom) ==
    LngLatToTile((bounds.west + bounds.east) \div 2,
                 (bounds.north + bounds.south) \div 2, zoom)

\* getVisibleTiles(bounds, zoom): x in the outer loop, y in the inner loop
GetVisibleTiles(bounds, zoom) ==
    LET nw == LngLatToTile(bounds.west, bounds.north, zoom)
        se == LngLatToTile(bounds.east, bounds.south, zoom)
        x0 == Min(nw.x, se.x)
        y0 == Min(nw.y, se.y)
        nx == Max(nw.x, se.x) - x0 + 1
        ny == Max(nw.y, se.y) - y0 + 1
    IN [ i \in 1..(nx * ny) |->
           [ x |-> x0 + ((i - 1) \div ny), y |-> y0 + ((i - 1) % ny), z |-> zoom ] ]

RECURSIVE InsertByDistanceUnstable(_, _)
\* faulty variant of InsertByDistance: e placed before the elements of equal
\* distance (an unstable sort)
InsertByDistanceUnstable(s, e) ==
    IF s = << >> THEN << e >>
    ELSE IF e.distance <= s[Len(s)].distance
         THEN Append(InsertByDistanceUnstable(SubSeq(s, 1, Len(s) - 1), e), s[Len(s)])
         ELSE Append(s, e)

RECURSIVE InsertByDistance(_, _)
\* e placed behind every element of the sorted s whose distance is <= e's
InsertByDistance(s, e) ==
    IF s = << >> THEN << e >>
    ELSE IF e.distance < s[Len(s)].distance
         THEN Append(InsertByDistance(SubSeq(s, 1, Len(s) - 1), e), s[Len(s)])
         ELSE Append(s, e)

RECURSIVE SortByDistance(_)
\* prioritized.sort((a, b) => a.distance - b.distance): a stable sort
SortByDistance(s) ==
    IF s = << >> THEN << >>
    ELSE InsertByDistance(SortByDistance(SubSeq(s, 1, Len(s) - 1)), s[Len(s)])

\* faulty variant of PrioritizeTiles: the sort is missing
PrioritizeTilesUnsorted(ts, centerTile) ==
    [ i \in 1..Len(ts) |->
        LET dx == ts[i].x - centerTile.x
            dy == ts[i].y - centerTile.y
        IN [ coord |-> ts[i],
             key |-> TileKey(ts[i].x, ts[i].y, ts[i].z),
             distance |-> dx * dx + dy * dy ] ]

\* prioritizeTiles(tiles, centerTile)
PrioritizeTiles(ts, centerTile) ==
    SortByDistance(
        [ i \in 1..Len(ts) |->
            LET dx == ts[i].x - centerTile.x
                dy == ts[i].y - centerTile.y
            IN [ coord |-> ts[i],
                 key |-> TileKey(ts[i].x, ts[i].y, ts[i].z),
                 distance |-> dx * dx + dy * dy ] ])

\* getParentTile(tile); a tile with z = 0 has none (represented by itself)
GetParentTile(tile) ==
    IF tile.z = 0 THEN tile
    ELSE [ x |-> tile.x \div 2, y |-> tile.y \div 2, z |-> tile.z - 1 ]

-----------------------------------------------------------------------------
(* TileLoader *)

\* viewport bounds handed to updateViewport
Viewports ==
    { [ west |-> 0, east |-> 2, north |-> 0, south |-> 0 ],
      [ west |-> 2, east |-> 2, north |-> 0, south |-> 0 ] }

Zooms == 0..MaxZoom

\* every tile of the zoom levels modelled
AllCoords ==
    { [ x |-> x, y |-> y, z |-> z ] :
        x \in 0..((2 ^ MaxZoom) - 1), y \in 0..((2 ^ MaxZoom) - 1), z \in Zooms }
TileCoords == { t \in AllCoords : t.x < 2 ^ t.z /\ t.y < 2 ^ t.z }
TileKeys == { TileKey(t.x, t.y, t.z) : t \in TileCoords }

\* a timer variable holding no pending callback
NoTimer == [ pending |-> FALSE ]
\* setTimeout(() => ... processViewChange(bounds, zoom), ...)
Timer(bounds, zoom) == [ pending |-> TRUE, bounds |-> bounds, zoom |-> zoom ]

\* estimateTileSize(data): 1 MiB
EstimateTileSize == 1024 * 1024

\* the record processViewChange creates for a key
NewTile(gen) ==
    [ state |-> "pending", generation |-> gen, data |-> 0,
      error |-> FALSE, loadTime |-> FALSE ]

\* a LoadTile call awaiting completion, as captured by startTileLoad:
\* the key of its record, the generation captured, whether its record is
\* still the one in the record map (live), and whether handleZoomChange has
\* run since it was started (superseded)
Load(key, gen) == [ key |-> key, gen |-> gen, live |-> TRUE, superseded |-> FALSE ]

RECURSIVE SumCounts(_, _)
SumCounts(B, S) ==
    IF S = {} THEN 0
    ELSE LET e == CHOOSE j \in S : TRUE IN B[e] + SumCounts(B, S \ {e})

\* the bag B with field f of every element set to v
BagSetField(B, f, v) ==
    [ x \in { [ e EXCEPT ![f] = v ] : e \in DOMAIN B } |->
        SumCounts(B, { e \in DOMAIN B : [ e EXCEPT ![f] = v ] = x }) ]

\* no scripted call is under examination
NoCall == [ op |-> "none" ]

\* constructor of TileLoader
LoaderInit ==
    /\ tiles = EmptyMap
    /\ loadQueue = << >>
    /\ loadingTiles = {}
    /\ loadGeneration = 0
    /\ lastZoom = -1
    /\ panDebounceTimer = NoTimer
    /\ zoomTimers = << >>
    /\ zoomHandleLive = FALSE
    /\ isZooming = FALSE
    /\ cache = NewCache(cacheSizeMB)
    /\ outstanding = EmptyBag
    /\ resets = 0

\* a loader and a stand-alone cache, both freshly constructed
Init ==
    /\ LoaderInit
    /\ lru = NewCache(lruSizeMB)
    /\ call = NoCall

\* handleZoomChange, lines 138-144: the records after the loop
ZoomResetTiles(t, loading, gen) ==
    [ k \in DOMAIN t |->
        IF k \in loading /\ t[k].generation < gen
        THEN [ t[k] EXCEPT !.state = "pending" ]
        ELSE t[k] ]

\* faulty variant of ZoomResetLoading: the keys are not removed from the
\* in-flight set
ZoomResetLoadingKeeps(t, loading, gen) == loading

\* handleZoomChange, lines 138-144: the in-flight set after the loop
ZoomResetLoading(t, loading, gen) ==
    { k \in loading : ~ (k \in DOMAIN t /\ t[k].generation < gen) }

\* handleZoomChange(newZoom)
HandleZoomChange(newZoom) ==
    /\ loadGeneration' = loadGeneration + 1
    /\ lastZoom' = newZoom
    /\ loadQueue' = << >>
    /\ cache' = InvalidateOldGenerations(cache, loadGeneration + 1)
    /\ tiles' = ZoomResetTiles(tiles, loadingTiles, loadGeneration + 1)
    /\ loadingTiles' = ZoomResetLoading(tiles, loadingTiles, loadGeneration + 1)
    /\ outstanding' = BagSetField(outstanding, "superseded", TRUE)

\* updateViewport(bounds, zoom)
UpdateViewport(bounds, zoom) ==
    IF zoom # lastZoom
    THEN /\ resets < MaxResets
         /\ Len(zoomTimers) < MaxZoomTimers
         /\ HandleZoomChange(zoom)
         /\ panDebounceTimer' = NoTimer
         /\ isZooming' = TRUE
         /\ zoomTimers' = Append(zoomTimers, Timer(bounds, zoom))
         /\ zoomHandleLive' = TRUE
         /\ resets' = resets + 1
         /\ UNCHANGED << lru, call >>
    ELSE /\ panDebounceTimer' = Timer(bounds, zoom)
         /\ zoomTimers' = IF zoomHandleLive
                          THEN SubSeq(zoomTimers, 1, Len(zoomTimers) - 1)
                          ELSE zoomTimers
         /\ zoomHandleLive' = FALSE
         /\ UNCHANGED << tiles, loadQueue, loadingTiles, loadGeneration, lastZoom,
                         isZooming, cache, outstanding, resets, lru, call >>

\* faulty variant of EnqueueTile: the in-flight test of line 166 is missing
EnqueueTileNoInFlightTest(st, p) ==
    IF CacheHas(cache, p.key) THEN st
    ELSE IF \E i \in 1..Len(st.queue) : st.queue[i] = p.key
         THEN st
         ELSE [ queue |-> Append(st.queue, p.key),
                tiles |-> IF p.key \in DOMAIN st.tiles THEN st.tiles
                          ELSE Put(st.tiles, p.key, NewTile(loadGeneration)) ]

\* processViewChange, lines 159-182, for one prioritized tile p:
\* the queue and the records after the loop body
EnqueueTile(st, p) ==
    IF CacheHas(cache, p.key) THEN st
    ELSE IF (\E i \in 1..Len(st.queue) : st.queue[i] = p.key) \/ p.key \in loadingTiles
         THEN st
         ELSE [ queue |-> Append(st.queue, p.key),
                tiles |-> IF p.key \in DOMAIN st.tiles THEN st.tiles
                          ELSE Put(st.tiles, p.key, NewTile(loadGeneration)) ]

RECURSIVE EnqueueAll(_, _)
\* processViewChange, lines 159-182: the loop over the prioritized tiles
EnqueueAll(st, prioritized) ==
    IF prioritized = << >> THEN st
    ELSE EnqueueAll(EnqueueTile(st, Head(prioritized)), Tail(prioritized))

\* processViewChange(bounds, zoom)
ProcessViewChange(bounds, zoom) ==
    LET visibleTiles == GetVisibleTiles(bounds, zoom)
        centerTile   == GetViewportCenterTile(bounds, zoom)
        prioritized  == PrioritizeTiles(visibleTiles, centerTile)
        st == EnqueueAll([ queue |-> loadQueue, tiles |-> tiles ], prioritized)
    IN /\ loadQueue' = st.queue
       /\ tiles' = st.tiles

\* faulty variant of FirePanTimer: the callback stays armed after it has run
\* (an interval in place of a timeout)
FirePanTimerRepeats ==
    /\ panDebounceTimer.pending
    /\ ProcessViewChange(panDebounceTimer.bounds, panDebounceTimer.zoom)
    /\ UNCHANGED << loadingTiles, loadGeneration, lastZoom, panDebounceTimer,
                    zoomTimers, zoomHandleLive, isZooming, cache, outstanding,
                    resets, lru, call >>

\* the pan-debounce callback of updateViewport (lines 118-120) fires
FirePanTimer ==
    /\ panDebounceTimer.pending
    /\ ProcessViewChange(panDebounceTimer.bounds, panDebounceTimer.zoom)
    /\ panDebounceTimer' = NoTimer
    /\ UNCHANGED << loadingTiles, loadGeneration, lastZoom, zoomTimers,
                    zoomHandleLive, isZooming, cache, outstanding, resets, lru, call >>

\* the oldest pending zoom-debounce callback of updateViewport (lines 113-116)
\* fires; all are armed with the same delay, so they fire in arming order
FireZoomTimer ==
    /\ zoomTimers # << >>
    /\ isZooming' = FALSE
    /\ ProcessViewChange(Head(zoomTimers).bounds, Head(zoomTimers).zoom)
    /\ zoomTimers' = Tail(zoomTimers)
    /\ zoomHandleLive' = (zoomHandleLive /\ Len(zoomTimers) > 1)
    /\ UNCHANGED << loadingTiles, loadGeneration, lastZoom, panDebounceTimer,
                    cache, outstanding, resets, lru, call >>

RECURSIVE DrainQueueNoCap(_)
\* faulty variant of DrainQueue: the loop does not test the size of the in-flight set
DrainQueueNoCap(st) ==
    IF /\ st.queue # << >>
       /\ Len(st.started) < maxStartsPerFrame
    THEN LET key == Head(st.queue)
         IN IF key \notin DOMAIN st.tiles
                \/ st.tiles[key].generation < loadGeneration
            THEN DrainQueueNoCap([ st EXCEPT !.queue = Tail(st.queue) ])
            ELSE DrainQueueNoCap(
                   [ queue   |-> Tail(st.queue),
                     loading |-> st.loading \cup {key},
                     tiles   |-> [ st.tiles EXCEPT ![key].state = "loading" ],
                     started |-> Append(st.started,
                                        Load(key, st.tiles[key].generation)) ])
    ELSE st

RECURSIVE DrainQueueOneMore(_)
\* faulty variant of DrainQueue: startsThisFrame <= maxStartsPerFrame in the loop test
DrainQueueOneMore(st) ==
    IF /\ Cardinality(st.loading) < maxConcurrentLoads
       /\ st.queue # << >>
       /\ Len(st.started) <= maxStartsPerFrame
    THEN LET key == Head(st.queue)
         IN IF key \notin DOMAIN st.tiles
                \/ st.tiles[key].generation < loadGeneration
            THEN DrainQueueOneMore([ st EXCEPT !.queue = Tail(st.queue) ])
            ELSE DrainQueueOneMore(
                   [ queue   |-> Tail(st.queue),
                     loading |-> st.loading \cup {key},
                     tiles   |-> [ st.tiles EXCEPT ![key].state = "loading" ],
                     started |-> Append(st.started,
                                        Load(key, st.tiles[key].generation)) ])
    ELSE st

RECURSIVE DrainQueue(_)
\* processQueue, lines 194-211: the while loop; st.started lists the loads
\* begun by startTileLoad (lines 218-224) so far
DrainQueue(st) ==
    IF /\ Cardinality(st.loading) < maxConcurrentLoads
       /\ st.queue # << >>
       /\ Len(st.started) < maxStartsPerFrame
    THEN LET key == Head(st.queue)
         IN IF key \notin DOMAIN st.tiles
                \/ st.tiles[key].generation < loadGeneration
            THEN DrainQueue([ st EXCEPT !.queue = Tail(st.queue) ])
            ELSE DrainQueue(
                   [ queue   |-> Tail(st.queue),
                     loading |-> st.loading \cup {key},
                     tiles   |-> [ st.tiles EXCEPT ![key].state = "loading" ],
                     started |-> Append(st.started,
                                        Load(key, st.tiles[key].generation)) ])
    ELSE st

\* the bag holding the elements of sequence s
SeqToBag(s) ==
    [ x \in { s[i] : i \in 1..Len(s) } |->
        Cardinality({ i \in 1..Len(s) : s[i] = x }) ]

\* faulty variant of ProcessQueue: the isZooming test is missing
ProcessQueueWhileZooming ==
    LET st == DrainQueue([ queue |-> loadQueue, loading |-> loadingTiles,
                           tiles |-> tiles, started |-> << >> ])
    IN /\ BagCardinality(outstanding) + Len(st.started) <= MaxOutstanding
       /\ loadQueue' = st.queue
       /\ loadingTiles' = st.loading
       /\ tiles' = st.tiles
       /\ outstanding' = outstanding (+) SeqToBag(st.started)
       /\ UNCHANGED << loadGeneration, lastZoom, panDebounceTimer, zoomTimers,
                       zoomHandleLive, isZooming, cache, resets, lru, call >>

\* processQueue()
ProcessQueue ==
    IF isZooming
    THEN UNCHANGED vars
    ELSE LET st == DrainQueue([ queue |-> loadQueue, loading |-> loadingTiles,
                                tiles |-> tiles, started |-> << >> ])
         IN /\ BagCardinality(outstanding) + Len(st.started) <= MaxOutstanding
            /\ loadQueue' = st.queue
            /\ loadingTiles' = st.loading
            /\ tiles' = st.tiles
            /\ outstanding' = outstanding (+) SeqToBag(st.started)
            /\ UNCHANGED << loadGeneration, lastZoom, panDebounceTimer, zoomTimers,
                            zoomHandleLive, isZooming, cache, resets, lru, call >>

\* faulty variant of StaleLoad: only a generation from the future counts as stale
StaleLoadNewerOnly(l) == l.gen > loadGeneration

\* startTileLoad, lines 227 and 241: the generation check on completion
StaleLoad(l) == l.gen # loadGeneration

\* startTileLoad, lines 224-239 and 250: LoadTile of load l resolves with data
LoadResolves(l, data) ==
    /\ BagIn(l, outstanding)
    /\ outstanding' = outstanding (-) SetToBag({l})
    /\ loadingTiles' = loadingTiles \ {l.key}
    /\ IF StaleLoad(l)
       THEN UNCHANGED << tiles, cache >>
       ELSE /\ cache.accessCounter < MaxAccess
            /\ cache.stats.evictions < MaxEvictions
            /\ tiles' = IF l.live
                        THEN [ tiles EXCEPT ![l.key].data = data,
                                            ![l.key].state = "loaded",
                                            ![l.key].loadTime = TRUE ]
                        ELSE tiles
            /\ cache' = CacheSet(cache, l.key, data, EstimateTileSize, l.gen)
    /\ UNCHANGED << loadQueue, loadGeneration, lastZoom, panDebounceTimer,
                    zoomTimers, zoomHandleLive, isZooming, resets, lru, call >>

\* faulty variant of LoadRejects: a failed load of the current generation is
\* put back in the queue
LoadRejectsRequeues(l) ==
    /\ BagIn(l, outstanding)
    /\ outstanding' = outstanding (-) SetToBag({l})
    /\ loadingTiles' = loadingTiles \ {l.key}
    /\ tiles' = IF StaleLoad(l) \/ ~ l.live
                THEN tiles
                ELSE [ tiles EXCEPT ![l.key].state = "error",
                                    ![l.key].error = TRUE ]
    /\ loadQueue' = IF StaleLoad(l) THEN loadQueue ELSE Append(loadQueue, l.key)
    /\ UNCHANGED << loadGeneration, lastZoom, panDebounceTimer,
                    zoomTimers, zoomHandleLive, isZooming, cache, resets, lru, call >>

\* startTileLoad, lines 224 and 240-250: LoadTile of load l rejects
LoadRejects(l) ==
    /\ BagIn(l, outstanding)
    /\ outstanding' = outstanding (-) SetToBag({l})
    /\ loadingTiles' = loadingTiles \ {l.key}
    /\ tiles' = IF StaleLoad(l) \/ ~ l.live
                THEN tiles
                ELSE [ tiles EXCEPT ![l.key].state = "error",
                                    ![l.key].error = TRUE ]
    /\ UNCHANGED << loadQueue, loadGeneration, lastZoom, panDebounceTimer,
                    zoomTimers, zoomHandleLive, isZooming, cache, resets, lru, call >>

\* getTile(key) on st = [cache, tiles]: the cache and the records after it
GetTileEffect(st, key) ==
    LET cached == CacheGetValue(st.cache, key)
    IN [ cache |-> CacheGet(st.cache, key),
         tiles |-> IF cached # 0 /\ key \in DOMAIN st.tiles
                   THEN [ st.tiles EXCEPT ![key].data = cached,
                                          ![key].state = "loaded" ]
                   ELSE st.tiles ]

\* getTile(key): the value returned, read from the records after the call
\* (lines 265 and 269); undefined is represented by a record of state "none"
GetTileReturn(t, key) ==
    IF key \in DOMAIN t THEN t[key] ELSE [ state |-> "none" ]

\* getTile(key)
GetTile(key) ==
    LET st == GetTileEffect([ cache |-> cache, tiles |-> tiles ], key)
    IN /\ cache.stats.hits + cache.stats.misses < MaxGets
       /\ cache.accessCounter < MaxAccess
       /\ cache' = st.cache
       /\ tiles' = st.tiles
       /\ UNCHANGED << loadQueue, loadingTiles, loadGeneration, lastZoom,
                       panDebounceTimer, zoomTimers, zoomHandleLive, isZooming,
                       outstanding, resets, lru, call >>

\* the result of findLoadedParent when no ancestor qualifies (null)
NoParent(coord) == [ found |-> FALSE, coord |-> coord, tile |-> [ state |-> "none" ] ]

RECURSIVE ParentWalkFromSelf(_, _)
\* faulty variant of ParentWalk: the walk starts at the tile itself
ParentWalkFromSelf(st, tile) ==
    LET key == TileKey(tile.x, tile.y, tile.z)
        st1 == GetTileEffect(st, key)
        r   == GetTileReturn(st1.tiles, key)
    IN IF r.state = "loaded" /\ r.data # 0
       THEN [ cache |-> st1.cache, tiles |-> st1.tiles,
              result |-> [ found |-> TRUE, coord |-> tile, tile |-> r ] ]
       ELSE IF tile.z = 0
            THEN [ cache |-> st1.cache, tiles |-> st1.tiles, result |-> NoParent(tile) ]
            ELSE ParentWalkFromSelf(st1, GetParentTile(tile))

RECURSIVE ParentWalk(_, _)
\* findLoadedParent, lines 291-304: the loop from tile upward on
\* st = [cache, tiles]; the cache, the records and the value returned
ParentWalk(st, tile) ==
    IF tile.z = 0
    THEN [ cache |-> st.cache, tiles |-> st.tiles, result |-> NoParent(tile) ]
    ELSE LET parent == GetParentTile(tile)
             key    == TileKey(parent.x, parent.y, parent.z)
             st1    == GetTileEffect(st, key)
             r      == GetTileReturn(st1.tiles, key)
         IN IF r.state = "loaded" /\ r.data # 0
            THEN [ cache |-> st1.cache, tiles |-> st1.tiles,
                   result |-> [ found |-> TRUE, coord |-> parent, tile |-> r ] ]
            ELSE ParentWalk(st1, parent)

\* findLoadedParent(coord)
FindLoadedParent(coord) ==
    LET st == ParentWalk([ cache |-> cache, tiles |-> tiles ], coord)
    IN /\ cache.stats.hits + cache.stats.misses + coord.z <= MaxGets
       /\ cache.accessCounter + coord.z <= MaxAccess
       /\ cache' = st.cache
       /\ tiles' = st.tiles
       /\ UNCHANGED << loadQueue, loadingTiles, loadGeneration, lastZoom,
                       panDebounceTimer, zoomTimers, zoomHandleLive, isZooming,
                       outstanding, resets, lru, call >>

\* faulty variant of Clear: the cache is not cleared
ClearKeepsCache ==
    /\ resets < MaxResets
    /\ resets' = resets + 1
    /\ tiles' = EmptyMap
    /\ loadQueue' = << >>
    /\ loadingTiles' = {}
    /\ loadGeneration' = 0
    /\ outstanding' = BagSetField(outstanding, "live", FALSE)
    /\ UNCHANGED << lastZoom, panDebounceTimer, zoomTimers, zoomHandleLive,
                    isZooming, cache, lru, call >>

\* clear()
Clear ==
    /\ resets < MaxResets
    /\ resets' = resets + 1
    /\ tiles' = EmptyMap
    /\ loadQueue' = << >>
    /\ loadingTiles' = {}
    /\ cache' = CacheClear(cache)
    /\ loadGeneration' = 0
    /\ outstanding' = BagSetField(outstanding, "live", FALSE)
    /\ UNCHANGED << lastZoom, panDebounceTimer, zoomTimers, zoomHandleLive,
                    isZooming, lru, call >>

Next ==
    \/ \E bounds \in Viewports, zoom \in Zooms : UpdateViewport(bounds, zoom)
    \/ FirePanTimer
    \/ FireZoomTimer
    \/ ProcessQueue
    \/ \E l \in DOMAIN outstanding, data \in Payloads : LoadResolves(l, data)
    \/ \E l \in DOMAIN outstanding : LoadRejects(l)
    \/ \E key \in TileKeys : GetTile(key)
    \/ \E coord \in TileCoords : FindLoadedParent(coord)
    \/ Clear

Spec == Init /\ [][Next]_vars

NextNoClear ==
    \/ \E bounds \in Viewports, zoom \in Zooms : UpdateViewport(bounds, zoom)
    \/ FirePanTimer
    \/ FireZoomTimer
    \/ ProcessQueue
    \/ \E l \in DOMAIN outstanding, data \in Payloads : LoadResolves(l, data)
    \/ \E l \in DOMAIN outstanding : LoadRejects(l)
    \/ \E key \in TileKeys : GetTile(key)
    \/ \E coord \in TileCoords : FindLoadedParent(coord)

\* the loader driven without clear()
SpecNoClear == Init /\ [][NextNoClear]_vars

-----------------------------------------------------------------------------
(* A stand-alone LRUTileCache driven through its public methods *)

CacheKeys == { TileKey(0, k, 0) : k \in 0..(NumCacheKeys - 1) }
\* entry sizes in bytes: 400 KiB, 600 KiB, 1.5 MiB
Sizes == { 400 * 1024, 600 * 1024, 1536 * 1024 }
LruGens == 0..MaxLruGen

\* lru.set(key, value, size, generation)
LruSet(key, value, size, generation) ==
    /\ lru.accessCounter < MaxLruAccess
    /\ lru.stats.evictions < MaxEvictions
    /\ lru' = CacheSet(lru, key, value, size, generation)
    /\ UNCHANGED << loaderVars, call >>

\* lru.get(key)
LruGet(key) ==
    /\ lru.accessCounter < MaxLruAccess
    /\ lru.stats.hits + lru.stats.misses < MaxGets
    /\ lru' = CacheGet(lru, key)
    /\ UNCHANGED << loaderVars, call >>

\* lru.has(key): a query
LruHas(key) ==
    /\ CacheHas(lru, key) \in BOOLEAN
    /\ UNCHANGED vars

\* lru.delete(key)
LruDelete(key) ==
    /\ lru' = CacheDelete(lru, key)
    /\ UNCHANGED << loaderVars, call >>

\* lru.clear()
LruClear ==
    /\ lru' = CacheClear(lru)
    /\ UNCHANGED << loaderVars, call >>

\* lru.invalidateOldGenerations(currentGeneration)
LruInvalidate(currentGeneration) ==
    /\ lru' = InvalidateOldGenerations(lru, currentGeneration)
    /\ UNCHANGED << loaderVars, call >>

CacheNext ==
    \/ \E key \in CacheKeys, value \in Payloads, size \in Sizes, generation \in LruGens :
          LruSet(key, value, size, generation)
    \/ \E key \in CacheKeys : LruGet(key)
    \/ \E key \in CacheKeys : LruHas(key)
    \/ \E key \in CacheKeys : LruDelete(key)
    \/ LruClear
    \/ \E currentGeneration \in LruGens \cup {MaxLruGen + 1} :
          LruInvalidate(currentGeneration)

CacheSpec == Init /\ [][CacheNext]_vars

-----------------------------------------------------------------------------
(* Scenario S1 on a stand-alone LRUTileCache of 1 MB: three inserts, a get, *)
(* a fourth insert.  The entry size and the key of the get are drawn from  *)
(* small sets; call.step counts the operations done.                       *)

\* entry sizes tried: 100 KiB .. S1MaxUnits * 100 KiB
S1MaxUnits == 5
S1Sizes == { u * 100 * 1024 : u \in 1..S1MaxUnits }

\* the key "0/0/k"
S1Key(k) == TileKey(0, k, 0)

\* new LRUTileCache(1)
S1Init ==
    /\ LoaderInit
    /\ lru = NewCache(1)
    /\ call \in { [ op |-> "S1", step |-> 0, size |-> size, getKey |-> key,
                     result |-> 0 ] : size \in S1Sizes, key \in CacheKeys }

\* set("0/0/0"), set("0/0/1"), set("0/0/2") at generation 0, in that order
S1Insert ==
    /\ call.op = "S1"
    /\ call.step \in 0..2
    /\ lru' = CacheSet(lru, S1Key(call.step), 1, call.size, 0)
    /\ call' = [ call EXCEPT !.step = call.step + 1 ]
    /\ UNCHANGED loaderVars

\* get(getKey)
S1Get ==
    /\ call.op = "S1"
    /\ call.step = 3
    /\ lru' = CacheGet(lru, call.getKey)
    /\ call' = [ call EXCEPT !.step = 4, !.result = CacheGetValue(lru, call.getKey) ]
    /\ UNCHANGED loaderVars

\* set("0/0/3")
S1InsertLast ==
    /\ call.op = "S1"
    /\ call.step = 4
    /\ lru' = CacheSet(lru, S1Key(3), 1, call.size, 0)
    /\ call' = [ call EXCEPT !.step = 5 ]
    /\ UNCHANGED loaderVars

S1Next == S1Insert \/ S1Get \/ S1InsertLast

S1Spec == S1Init /\ [][S1Next]_vars

-----------------------------------------------------------------------------
(* findLoadedParent on a loader whose records and cache are drawn from the *)
(* states a loader can be in, for tiles of zoom levels 0..ParentMaxZoom    *)

ParentMaxZoom == 2

ParentCoords ==
    { [ x |-> x, y |-> y, z |-> z ] :
        x \in 0..((2 ^ ParentMaxZoom) - 1), y \in 0..((2 ^ ParentMaxZoom) - 1),
        z \in 0..ParentMaxZoom }

\* the ancestors of coord on the chain (z-1, x>>1, y>>1), (z-2, x>>2, y>>2), ...
StrictAncestors(coord) ==
    { [ x |-> coord.x \div (2 ^ n), y |-> coord.y \div (2 ^ n), z |-> coord.z - n ] :
        n \in 1..coord.z }

CoordKey(coord) == TileKey(coord.x, coord.y, coord.z)

\* a record in one of the states a record can be in
TileInState(state) ==
    [ state |-> state, generation |-> 1,
      data |-> IF state = "loaded" THEN 1 ELSE 0,
      error |-> (state = "error"),
      loadTime |-> (state = "loaded") ]

RECURSIVE CacheSetAll(_, _)
\* the cache c after set(key, 1, size, 1) for every key of S
CacheSetAll(c, S) ==
    IF S = {} THEN c
    ELSE LET k == CHOOSE j \in S : TRUE
         IN CacheSetAll(CacheSet(c, k, 1, EstimateTileSize, 1), S \ {k})

\* a loader at rest: for the tile asked about and each of its ancestors the
\* record is absent, PENDING, LOADED or ERROR, and its payload cached or not
ParentInit ==
    /\ loadQueue = << >>
    /\ loadingTiles = {}
    /\ loadGeneration = 1
    /\ lastZoom = ParentMaxZoom
    /\ panDebounceTimer = NoTimer
    /\ zoomTimers = << >>
    /\ zoomHandleLive = FALSE
    /\ isZooming = FALSE
    /\ outstanding = EmptyBag
    /\ resets = 0
    /\ lru = NewCache(lruSizeMB)
    /\ \E coord \in { c \in ParentCoords : c.x < 2 ^ c.z /\ c.y < 2 ^ c.z } :
         LET chain == { CoordKey(a) : a \in StrictAncestors(coord) \cup {coord} }
         IN /\ call = [ op |-> "findLoadedParent", coord |-> coord,
                        done |-> FALSE, result |-> NoParent(coord) ]
            /\ \E present \in SUBSET chain :
                  tiles \in [ present -> { TileInState(state) :
                                             state \in {"pending", "loaded", "error"} } ]
            /\ \E cached \in SUBSET chain :
                  cache = CacheSetAll(NewCache(cacheSizeMB), cached)

\* findLoadedParent(call.coord) is called and returns
ParentFind ==
    LET st == ParentWalk([ cache |-> cache, tiles |-> tiles ], call.coord)
    IN /\ call.op = "findLoadedParent"
       /\ ~ call.done
       /\ cache' = st.cache
       /\ tiles' = st.tiles
       /\ call' = [ call EXCEPT !.done = TRUE, !.result = st.result ]
       /\ UNCHANGED << loadQueue, loadingTiles, loadGeneration, lastZoom,
                       panDebounceTimer, zoomTimers, zoomHandleLive, isZooming,
                       outstanding, resets, lru >>

ParentNext == ParentFind

ParentSpec == ParentInit /\ [][ParentNext]_vars

-----------------------------------------------------------------------------
(* Tile keys as strings: tileKey and parseTileKey.  A string is a sequence  *)
(* of one-character strings.                                               *)

\* coordinates 0..KeyMax, and a few of more digits, are formatted and parsed
KeyMax == 11
KeyValues == (0..KeyMax) \cup { 99, 100, 1024, 65535, 1048576 }

DigitChars == << "0", "1", "2", "3", "4", "5", "6", "7", "8", "9" >>

IsDigit(c) == \E d \in 1..10 : DigitChars[d] = c

DigitValue(c) == (CHOOSE d \in 1..10 : DigitChars[d] = c) - 1

RECURSIVE NumberToString(_)
\* `${n}` for an integer n >= 0: its decimal digits, no leading zero
NumberToString(n) ==
    IF n < 10 THEN << DigitChars[n + 1] >>
    ELSE Append(NumberToString(n \div 10), DigitChars[(n % 10) + 1])

\* faulty variant of TileKeyString: the coordinates in the order x/y/z
TileKeyStringXYZ(x, y, z) ==
    NumberToString(x) \o << "/" >> \o NumberToString(y) \o << "/" >> \o NumberToString(z)

\* tileKey(x, y, z): `${z}/${x}/${y}`
TileKeyString(x, y, z) ==
    NumberToString(z) \o << "/" >> \o NumberToString(x) \o << "/" >> \o NumberToString(y)

RECURSIVE Split(_)
\* key.split("/")
Split(str) ==
    IF \E i \in 1..Len(str) : str[i] = "/"
    THEN LET i == CHOOSE j \in 1..Len(str) :
                     str[j] = "/" /\ \A h \in 1..(j - 1) : str[h] # "/"
         IN << SubSeq(str, 1, i - 1) >> \o Split(SubSeq(str, i + 1, Len(str)))
    ELSE << str >>

RECURSIVE DecimalValue(_)
\* the number a sequence of digits denotes
DecimalValue(digits) ==
    IF digits = << >> THEN 0
    ELSE 10 * DecimalValue(SubSeq(digits, 1, Len(digits) - 1))
            + DigitValue(digits[Len(digits)])

\* the longest prefix of str made of digits
DigitPrefix(str) ==
    LET n == CHOOSE j \in 0..Len(str) :
                 /\ \A h \in 1..j : IsDigit(str[h])
                 /\ (j < Len(str) => ~ IsDigit(str[j + 1]))
    IN SubSeq(str, 1, n)

\* parseInt(str, 10): an optional sign, then the leading digits; NaN if none
ParseInt(str) ==
    LET signed == str # << >> /\ str[1] \in { "-", "+" }
        body   == IF signed THEN Tail(str) ELSE str
        digits == DigitPrefix(body)
    IN IF digits = << >>
       THEN [ nan |-> TRUE, value |-> 0 ]
       ELSE [ nan |-> FALSE,
              value |-> IF signed /\ str[1] = "-" THEN 0 - DecimalValue(digits)
                        ELSE DecimalValue(digits) ]

\* parseTileKey(key); null is the record with ok = FALSE
ParseTileKey(key) ==
    LET parts == Split(key)
        nan   == [ nan |-> TRUE, value |-> 0 ]
    IN IF Len(parts) # 3
       THEN [ ok |-> FALSE, z |-> nan, x |-> nan, y |-> nan ]
       ELSE IF parts[1] = << >> \/ parts[2] = << >> \/ parts[3] = << >>
            THEN [ ok |-> FALSE, z |-> nan, x |-> nan, y |-> nan ]
            ELSE [ ok |-> TRUE, z |-> ParseInt(parts[1]), x |-> ParseInt(parts[2]),
                   y |-> ParseInt(parts[3]) ]

\* coordinates x, y, z drawn from KeyValues
KeyInit ==
    /\ LoaderInit
    /\ lru = NewCache(lruSizeMB)
    /\ call \in { [ op |-> "tileKey", step |-> 0, x |-> x, y |-> y, z |-> z,
                     key |-> << >>, result |-> ParseTileKey(<< >>) ] :
                   x \in KeyValues, y \in KeyValues, z \in KeyValues }

\* key = tileKey(x, y, z)
KeyFormat ==
    /\ call.op = "tileKey"
    /\ call.step = 0
    /\ call' = [ call EXCEPT !.step = 1, !.key = TileKeyString(call.x, call.y, call.z) ]
    /\ UNCHANGED << loaderVars, lru >>

\* parseTileKey(key)
KeyParse ==
    /\ call.op = "tileKey"
    /\ call.step = 1
    /\ call' = [ call EXCEPT !.step = 2, !.result = ParseTileKey(call.key) ]
    /\ UNCHANGED << loaderVars, lru >>

KeyNext == KeyFormat \/ KeyParse

KeySpec == KeyInit /\ [][KeyNext]_vars

-----------------------------------------------------------------------------
(* parseTileKey on arbitrary strings over a small alphabet: digits, a       *)
(* letter, the separator and a sign                                        *)

ParseMaxLen == 6
ParseAlphabet == { "0", "1", "x", "/", "-" }

\* every string of at most ParseMaxLen characters of the alphabet
ParseKeys == UNION { [ 1..n -> ParseAlphabet ] : n \in 0..ParseMaxLen }

\* a key drawn from ParseKeys
ParseInit ==
    /\ LoaderInit
    /\ lru = NewCache(lruSizeMB)
    /\ call \in { [ op |-> "parseTileKey", done |-> FALSE, key |-> key,
                     result |-> ParseTileKey(<< >>) ] : key \in ParseKeys }

\* parseTileKey(call.key) is called and returns
ParseKey ==
    /\ call.op = "parseTileKey"
    /\ ~ call.done
    /\ call' = [ call EXCEPT !.done = TRUE, !.result = ParseTileKey(call.key) ]
    /\ UNCHANGED << loaderVars, lru >>

ParseNext == ParseKey

ParseSpec == ParseInit /\ [][ParseNext]_vars

-----------------------------------------------------------------------------
(* createConverter on projection names with and without the "EPSG:" prefix. *)
(* A converter is represented by the names of the functions its forward    *)
(* and inverse members call.                                               *)

EpsgPrefix == << "E", "P", "S", "G", ":" >>

\* EPSG codes tried: Web Mercator, WGS84, NAD83, UTM zone 33N
ConverterCodes == { 3857, 4326, 4269, 32633 }

\* the names handed to createConverter: bare codes, prefixed codes, and a
\* name without digits
ConverterNames ==
    { NumberToString(n) : n \in ConverterCodes }
        \cup { EpsgPrefix \o NumberToString(n) : n \in ConverterCodes }
        \cup { << "m", "e", "r", "c" >> }

\* faulty variant of NormalizeEPSG: the name is compared as given
NormalizeEPSGWhole(epsg) == epsg

\* normalizeEPSG(epsg): the first run of digits, or epsg itself if it has none
NormalizeEPSG(epsg) ==
    IF \E i \in 1..Len(epsg) : IsDigit(epsg[i])
    THEN LET i == CHOOSE j \in 1..Len(epsg) :
                     IsDigit(epsg[j]) /\ \A h \in 1..(j - 1) : ~ IsDigit(epsg[h])
         IN DigitPrefix(SubSeq(epsg, i, Len(epsg)))
    ELSE epsg

\* the converter returned by createConverter, or the Error thrown
Converter(forward, inverse) == [ thrown |-> FALSE, forward |-> forward, inverse |-> inverse ]
UnsupportedProjection == [ thrown |-> TRUE, forward |-> "none", inverse |-> "none" ]

\* createConverter(source, target)
CreateConverter(source, target) ==
    LET src == NormalizeEPSG(source)
        tgt == NormalizeEPSG(target)
    IN IF src = NumberToString(3857) /\ tgt = NumberToString(4326)
       THEN Converter("webMercatorToWGS84", "wgs84ToWebMercator")
       ELSE IF src = NumberToString(4326) /\ tgt = NumberToString(3857)
            THEN Converter("wgs84ToWebMercator", "webMercatorToWGS84")
            ELSE IF src = tgt
                 THEN Converter("identity", "identity")
                 ELSE UnsupportedProjection

\* source and target drawn from ConverterNames
ConverterInit ==
    /\ LoaderInit
    /\ lru = NewCache(lruSizeMB)
    /\ call \in { [ op |-> "createConverter", done |-> FALSE, source |-> source,
                     target |-> target, result |-> UnsupportedProjection ] :
                   source \in ConverterNames, target \in ConverterNames }

\* createConverter(call.source, call.target) returns or throws
ConverterCreate ==
    /\ call.op = "createConverter"
    /\ ~ call.done
    /\ call' = [ call EXCEPT !.done = TRUE,
                             !.result = CreateConverter(call.source, call.target) ]
    /\ UNCHANGED << loaderVars, lru >>

ConverterNext == ConverterCreate

ConverterSpec == ConverterInit /\ [][ConverterNext]_vars

-----------------------------------------------------------------------------
(* prioritizeTiles on tile lists of one zoom level: every list of at most   *)
(* PrioMaxLen tiles of a (PrioMaxCoord + 1) x (PrioMaxCoord + 1) block,    *)
(* repetitions included, around every center tile of the block             *)

PrioMaxLen == 3
PrioMaxCoord == 2

PrioZooms == { 2, 3 }

PrioCoords(z) ==
    { [ x |-> x, y |-> y, z |-> z ] : x \in 0..PrioMaxCoord, y \in 0..PrioMaxCoord }

\* tiles and centerTile drawn from the block, all of one zoom level
PrioInit ==
    /\ LoaderInit
    /\ lru = NewCache(lruSizeMB)
    /\ \E z \in PrioZooms, n \in 0..PrioMaxLen :
          call \in { [ op |-> "prioritizeTiles", done |-> FALSE, tiles |-> ts,
                       center |-> c, result |-> << >> ] :
                     ts \in [ 1..n -> PrioCoords(z) ], c \in PrioCoords(z) }

\* prioritizeTiles(call.tiles, call.center) is called and returns
PrioRun ==
    /\ call.op = "prioritizeTiles"
    /\ ~ call.done
    /\ call' = [ call EXCEPT !.done = TRUE,
                             !.result = PrioritizeTiles(call.tiles, call.center) ]
    /\ UNCHANGED << loaderVars, lru >>

PrioNext == PrioRun

PrioSpec == PrioInit /\ [][PrioNext]_vars

-----------------------------------------------------------------------------
(* The loader driven without clear(), with the arguments of the latest      *)
(* processViewChange kept in call                                          *)

\* processViewChange(bounds, zoom) has been the latest one to run
ViewChange(bounds, zoom) == [ op |-> "processViewChange", bounds |-> bounds, zoom |-> zoom ]

\* the pan-debounce callback of updateViewport (lines 118-120) fires
ViewFirePanTimer ==
    /\ panDebounceTimer.pending
    /\ ProcessViewChange(panDebounceTimer.bounds, panDebounceTimer.zoom)
    /\ panDebounceTimer' = NoTimer
    /\ call' = ViewChange(panDebounceTimer.bounds, panDebounceTimer.zoom)
    /\ UNCHANGED << loadingTiles, loadGeneration, lastZoom, zoomTimers,
                    zoomHandleLive, isZooming, cache, outstanding, resets, lru >>

\* the oldest pending zoom-debounce callback of updateViewport (lines 113-116) fires
ViewFireZoomTimer ==
    /\ zoomTimers # << >>
    /\ isZooming' = FALSE
    /\ ProcessViewChange(Head(zoomTimers).bounds, Head(zoomTimers).zoom)
    /\ zoomTimers' = Tail(zoomTimers)
    /\ zoomHandleLive' = (zoomHandleLive /\ Len(zoomTimers) > 1)
    /\ call' = ViewChange(Head(zoomTimers).bounds, Head(zoomTimers).zoom)
    /\ UNCHANGED << loadingTiles, loadGeneration, lastZoom, panDebounceTimer,
                    cache, outstanding, resets, lru >>

ViewNext ==
    \/ \E bounds \in Viewports, zoom \in Zooms : UpdateViewport(bounds, zoom)
    \/ ViewFirePanTimer
    \/ ViewFireZoomTimer
    \/ ProcessQueue
    \/ \E l \in DOMAIN outstanding, data \in Payloads : LoadResolves(l, data)
    \/ \E l \in DOMAIN outstanding : LoadRejects(l)
    \/ \E key \in TileKeys : GetTile(key)
    \/ \E coord \in TileCoords : FindLoadedParent(coord)

ViewSpec == Init /\ [][ViewNext]_vars

-----------------------------------------------------------------------------
(* The loader driven without clear() over viewports whose tiles are         *)
(* enumerated by getVisibleTiles in an order other than center-out         *)

\* a viewport of a 2 x 2 block of tiles centered on its south-east tile
OrderViewports == { [ west |-> 1, east |-> 3, north |-> 1, south |-> 3 ] }

OrderNext ==
    \/ \E bounds \in OrderViewports, zoom \in Zooms : UpdateViewport(bounds, zoom)
    \/ FirePanTimer
    \/ FireZoomTimer
    \/ ProcessQueue
    \/ \E l \in DOMAIN outstanding, data \in Payloads : LoadResolves(l, data)
    \/ \E l \in DOMAIN outstanding : LoadRejects(l)

OrderSpec == Init /\ [][OrderNext]_vars

-----------------------------------------------------------------------------
(* prioritizeTilesBFS on every set of tiles of a (PrioMaxCoord + 1) x        *)
(* (PrioMaxCoord + 1) block of one zoom level, listed in either direction, *)
(* around every center tile of the block                                   *)

\* the tiles of S as a list: x in the outer loop, y in the inner loop
TileList(S, z) ==
    LET side == PrioMaxCoord + 1
        all  == [ i \in 1..(side * side) |->
                    [ x |-> (i - 1) \div side, y |-> (i - 1) % side, z |-> z ] ]
        F[i \in 0..(side * side)] ==
            IF i = 0 THEN << >>
            ELSE IF all[i] \in S THEN Append(F[i - 1], all[i]) ELSE F[i - 1]
    IN F[side * side]

\* the list s back to front
Reversed(s) == [ i \in 1..Len(s) |-> s[Len(s) + 1 - i] ]

\* faulty variant of BfsNeighbors: the neighbor below is missing
BfsNeighborsThree(tile) ==
    << [ x |-> tile.x - 1, y |-> tile.y, z |-> tile.z ],
       [ x |-> tile.x + 1, y |-> tile.y, z |-> tile.z ],
       [ x |-> tile.x, y |-> tile.y - 1, z |-> tile.z ] >>

\* prioritizeTilesBFS, lines 270-275: the 4-connected neighbors of tile
BfsNeighbors(tile) ==
    << [ x |-> tile.x - 1, y |-> tile.y, z |-> tile.z ],
       [ x |-> tile.x + 1, y |-> tile.y, z |-> tile.z ],
       [ x |-> tile.x, y |-> tile.y - 1, z |-> tile.z ],
       [ x |-> tile.x, y |-> tile.y + 1, z |-> tile.z ] >>

\* prioritizeTilesBFS, lines 277-282: the neighbors pushed on the queue
BfsPushed(neighbors, visited, tileSet) ==
    LET F[i \in 0..Len(neighbors)] ==
            IF i = 0 THEN << >>
            ELSE LET neighborKey == TileKey(neighbors[i].x, neighbors[i].y, neighbors[i].z)
                 IN IF neighborKey \notin visited /\ neighborKey \in tileSet
                    THEN Append(F[i - 1], neighbors[i])
                    ELSE F[i - 1]
    IN F[Len(neighbors)]

\* prioritizeTilesBFS, lines 255-283: one iteration of the for loop on
\* st = [queue, visited, result, distance]
BfsVisit(st, tileSet) ==
    LET tile == Head(st.queue)
        key  == TileKey(tile.x, tile.y, tile.z)
    IN IF key \in st.visited
       THEN [ st EXCEPT !.queue = Tail(st.queue) ]
       ELSE [ queue    |-> Tail(st.queue)
                              \o BfsPushed(BfsNeighbors(tile), st.visited \cup {key}, tileSet),
              visited  |-> st.visited \cup {key},
              result   |-> IF key \in tileSet
                           THEN Append(st.result, [ coord |-> tile, key |-> key,
                                                    distance |-> st.distance ])
                           ELSE st.result,
              distance |-> st.distance ]

RECURSIVE BfsLevel(_, _, _)
\* prioritizeTilesBFS, lines 254-284: the for loop over levelSize queue items
BfsLevel(st, tileSet, levelSize) ==
    IF levelSize = 0 THEN st
    ELSE BfsLevel(BfsVisit(st, tileSet), tileSet, levelSize - 1)

RECURSIVE BfsLoop(_, _)
\* prioritizeTilesBFS, lines 251-287: the while loop
BfsLoop(st, tileSet) ==
    IF st.queue = << >> THEN st
    ELSE LET st1 == BfsLevel(st, tileSet, Len(st.queue))
         IN BfsLoop([ st1 EXCEPT !.distance = st1.distance + 1 ], tileSet)

\* prioritizeTilesBFS(tiles, centerTile)
PrioritizeTilesBFS(ts, centerTile) ==
    LET tileSet == { TileKey(ts[i].x, ts[i].y, ts[i].z) : i \in 1..Len(ts) }
    IN BfsLoop([ queue |-> << centerTile >>, visited |-> {}, result |-> << >>,
                 distance |-> 0 ], tileSet).result

\* tiles and centerTile drawn from the block, all of one zoom level
BfsInit ==
    /\ LoaderInit
    /\ lru = NewCache(lruSizeMB)
    /\ \E z \in PrioZooms :
          call \in { [ op |-> "prioritizeTilesBFS", done |-> FALSE, tiles |-> ts,
                       center |-> c, result |-> << >> ] :
                     ts \in UNION { { TileList(S, z), Reversed(TileList(S, z)) } :
                                      S \in SUBSET PrioCoords(z) },
                     c \in PrioCoords(z) }

\* prioritizeTilesBFS(call.tiles, call.center) is called and returns
BfsRun ==
    /\ call.op = "prioritizeTilesBFS"
    /\ ~ call.done
    /\ call' = [ call EXCEPT !.done = TRUE,
                             !.result = PrioritizeTilesBFS(call.tiles, call.center) ]
    /\ UNCHANGED << loaderVars, lru >>

BfsNext == BfsRun

BfsSpec == BfsInit /\ [][BfsNext]_vars

-----------------------------------------------------------------------------
(* getChildRegionInParent on every pair of tiles of zoom levels             *)
(* 0..RegionMaxZoom.  The fractions it computes are kept exact: a region   *)
(* is given by numerators over the common denominator scale = 2^zoomDiff.  *)

RegionMaxZoom == 2

RegionCoords ==
    { t \in { [ x |-> x, y |-> y, z |-> z ] :
                x \in 0..((2 ^ RegionMaxZoom) - 1), y \in 0..((2 ^ RegionMaxZoom) - 1),
                z \in 0..RegionMaxZoom } :
        t.x < 2 ^ t.z /\ t.y < 2 ^ t.z }

\* the result null of getChildRegionInParent
NoRegion == [ none |-> TRUE, x |-> 0, y |-> 0, width |-> 0, height |-> 0, scale |-> 1 ]

\* getChildRegionInParent(child, parent): x, y, width and height times scale
GetChildRegionInParent(child, parent) ==
    LET zoomDiff == child.z - parent.z
    IN IF zoomDiff < 0 THEN NoRegion
       ELSE LET scale == 2 ^ zoomDiff
            IN [ none   |-> FALSE,
                 x      |-> child.x - parent.x * scale,
                 y      |-> child.y - parent.y * scale,
                 width  |-> 1,
                 height |-> 1,
                 scale  |-> scale ]

\* child and parent drawn from RegionCoords
RegionInit ==
    /\ LoaderInit
    /\ lru = NewCache(lruSizeMB)
    /\ call \in { [ op |-> "getChildRegionInParent", done |-> FALSE, child |-> child,
                     parent |-> parent, result |-> NoRegion ] :
                   child \in RegionCoords, parent \in RegionCoords }

\* getChildRegionInParent(call.child, call.parent) is called and returns
RegionRun ==
    /\ call.op = "getChildRegionInParent"
    /\ ~ call.done
    /\ call' = [ call EXCEPT !.done = TRUE,
                             !.result = GetChildRegionInParent(call.child, call.parent) ]
    /\ UNCHANGED << loaderVars, lru >>

RegionNext == RegionRun

RegionSpec == RegionInit /\ [][RegionNext]_vars

-----------------------------------------------------------------------------
(* Properties *)

\* sanity of the cache model: lastAccess values are pairwise distinct and
\* never exceed accessCounter, so evictLRU's strict minimum is unique
LastAccessDistinct ==
    \A c \in {cache, lru} :
        \A j, k \in DOMAIN c.entries :
            /\ c.entries[k].lastAccess <= c.accessCounter
            /\ (j # k => c.entries[j].lastAccess # c.entries[k].lastAccess)

\* a step in which LoadTile of load l completes, successfully or not
Completes(l) == (\E data \in Payloads : LoadResolves(l, data)) \/ LoadRejects(l)

\* C1 (stale discard): when a load started with generation gen completes,
\* successfully or not, while gen < loadGeneration, the completion changes no
\* tile record and no cache entry; after it the tile's record is not LOADED
\* and the cache has no entry for its key.  Checked for every interleaving of
\* updateViewport, the timers, processQueue, getTile and completions.
StaleDiscard ==
    [][ \A l \in DOMAIN outstanding :
          (Completes(l) /\ l.gen < loadGeneration) =>
             /\ tiles' = tiles
             /\ cache' = cache
             /\ tiles'[l.key].state # "loaded"
             /\ ~ CacheHas(cache', l.key) ]_vars

\* C1 witness: a load started under an older generation is still outstanding
\* after a zoom change reset its record to PENDING; its completion is enabled
StaleLoadPending ==
    \E l \in DOMAIN outstanding :
        /\ l.gen < loadGeneration
        /\ tiles[l.key].state = "pending"
        /\ l.key \notin loadingTiles

\* C2 (superseded results are discarded), as claimed: the completion of a load
\* started before a zoom change adds nothing to the cache and sets no record
\* to LOADED or ERROR, whatever updateViewport, processQueue and clear calls
\* came in between
SupersededDiscarded ==
    [][ \A l \in DOMAIN outstanding :
          (Completes(l) /\ l.superseded) =>
             /\ cache'.entries = cache.entries
             /\ tiles' = tiles ]_vars

\* C3 (generation monotonicity), as claimed: loadGeneration never decreases
GenerationMonotonic == [][ loadGeneration' >= loadGeneration ]_vars

\* C4 (concurrency bound): the in-flight set holds at most maxConcurrentLoads keys
ConcurrencyBound == Cardinality(loadingTiles) <= maxConcurrentLoads

\* C4 witness: the in-flight set is full while another key waits in the queue
InFlightFull ==
    /\ Cardinality(loadingTiles) = maxConcurrentLoads
    /\ loadQueue # << >>
    /\ ~ isZooming

\* C5 (outstanding LoadTile calls), as claimed: at most maxConcurrentLoads
\* LoadTile calls have been invoked and not yet completed
OutstandingBound == BagCardinality(outstanding) <= maxConcurrentLoads

\* the queued keys processQueue could start: record present and not stale
Startable ==
    { i \in 1..Len(loadQueue) :
        /\ loadQueue[i] \in DOMAIN tiles
        /\ tiles[loadQueue[i]].generation >= loadGeneration }

\* C6 (frame pacing): one processQueue call invokes LoadTile at most
\* maxStartsPerFrame times; when isZooming is false it invokes it exactly
\* min(maxStartsPerFrame, maxConcurrentLoads - |inFlight|, startable queued keys)
\* times
FramePacing ==
    [][ ProcessQueue =>
          LET starts == BagCardinality(outstanding') - BagCardinality(outstanding)
          IN /\ starts <= maxStartsPerFrame
             /\ ~ isZooming =>
                  starts = Min(maxStartsPerFrame,
                               Min(maxConcurrentLoads - Cardinality(loadingTiles),
                                   Cardinality(Startable))) ]_vars

\* C6 witness: a load is in flight, a free slot and startable keys remain:
\* the per-frame limit, not the cap or the queue, ended the last drain
PacedDrain ==
    /\ ~ isZooming
    /\ \E l \in DOMAIN outstanding : l.key \in loadingTiles /\ l.gen = loadGeneration
    /\ Cardinality(loadingTiles) < maxConcurrentLoads
    /\ Cardinality(Startable) > maxStartsPerFrame

\* C7 (queue / in-flight disjointness): no key is both queued and in flight,
\* and no key occurs twice in the queue
QueueInFlightDisjoint ==
    /\ \A i \in 1..Len(loadQueue) : loadQueue[i] \notin loadingTiles
    /\ \A i, j \in 1..Len(loadQueue) : loadQueue[i] = loadQueue[j] => i = j

\* C7 witness: keys are queued while another key is in flight, after a view
\* change enumerated both
QueuedBesideInFlight ==
    /\ loadQueue # << >>
    /\ loadingTiles # {}
    /\ \E k \in loadingTiles : \E i \in 1..Len(loadQueue) : loadQueue[i][1] = k[1]

\* C8 (byte budget): totalSize <= maxSize, or the cache holds exactly one entry
ByteBudget ==
    \/ lru.totalSize <= lru.maxSize
    \/ Cardinality(DOMAIN lru.entries) = 1

\* C8 witness: a single oversized entry remains after a set evicted the others
OversizedAlone ==
    /\ lru.totalSize > lru.maxSize
    /\ Cardinality(DOMAIN lru.entries) = 1
    /\ lru.stats.evictions >= 1

\* C9 (size accounting): totalSize, and the totalSize and entries of the
\* statistics, equal the sum of the sizes and the number of the entries present
SizeAccounting ==
    /\ lru.totalSize = SumSizes(lru.entries, DOMAIN lru.entries)
    /\ lru.stats.totalSize = SumSizes(lru.entries, DOMAIN lru.entries)
    /\ lru.stats.entries = Cardinality(DOMAIN lru.entries)

\* C9 witness: after an eviction two entries of different sizes are present
MixedSizesAfterEviction ==
    /\ lru.stats.evictions >= 1
    /\ \E j, k \in DOMAIN lru.entries : lru.entries[j].size # lru.entries[k].size

\* lastAccess of key k just before the evictions of set(key, ...)
AccessBeforeEviction(k, key) ==
    IF k = key THEN lru.accessCounter + 1 ELSE lru.entries[k].lastAccess

\* C10 (LRU victim): every entry a set evicts had a smaller lastAccess than
\* every entry it keeps; set and a successful get give the entry the newest
\* lastAccess; has changes nothing
LruVictim ==
    [][ /\ \A key \in CacheKeys :
             (\E value \in Payloads, size \in Sizes, generation \in LruGens :
                 LruSet(key, value, size, generation)) =>
                /\ key \in DOMAIN lru'.entries
                /\ lru'.entries[key].lastAccess = lru.accessCounter + 1
                /\ \A e \in ((DOMAIN lru.entries) \cup {key}) \ DOMAIN lru'.entries :
                     \A k \in DOMAIN lru'.entries :
                        AccessBeforeEviction(e, key) < AccessBeforeEviction(k, key)
        /\ \A key \in DOMAIN lru.entries :
             LruGet(key) =>
                /\ lru'.entries[key].lastAccess = lru.accessCounter + 1
                /\ \A k \in DOMAIN lru.entries \ {key} :
                     /\ lru'.entries[k] = lru.entries[k]
                     /\ lru.entries[k].lastAccess < lru'.entries[key].lastAccess
        /\ \A key \in CacheKeys : LruHas(key) => lru' = lru ]_vars

\* C10 witness: after a hit and an eviction, a surviving entry is older than
\* two accesses: the hit, not the insertion order, kept it
HitThenEviction ==
    /\ lru.stats.hits >= 1
    /\ lru.stats.evictions >= 1
    /\ Cardinality(DOMAIN lru.entries) >= 2

\* scenario S1 has run to its end with the get on "0/0/0" and entries of size
S1Done(size) ==
    /\ call.op = "S1"
    /\ call.step = 5
    /\ call.size = size
    /\ call.getKey = S1Key(0)

\* C11 (scenario S1), amended: three entries of 400 KiB exceed 1 MiB, so the
\* third insert already evicts "0/0/0", the get misses, the fourth insert
\* evicts "0/0/1": the cache ends with {"0/0/2", "0/0/3"}, evictions = 2 and
\* totalSize = 819200.  With entries of 300 KiB, which fit three at a time,
\* the outcome is the one described: "0/0/1" evicted, {"0/0/0", "0/0/2",
\* "0/0/3"} kept, evictions = 1, totalSize = 3 * 300 KiB.
ScenarioS1 ==
    /\ S1Done(400 * 1024) =>
          /\ DOMAIN lru.entries = { S1Key(2), S1Key(3) }
          /\ call.result = 0
          /\ lru.stats.evictions = 2
          /\ lru.totalSize = 2 * 400 * 1024
          /\ lru.stats.totalSize = 2 * 400 * 1024
    /\ S1Done(300 * 1024) =>
          /\ DOMAIN lru.entries = { S1Key(0), S1Key(2), S1Key(3) }
          /\ call.result = 1
          /\ lru.stats.evictions = 1
          /\ lru.totalSize = 3 * 300 * 1024

\* C11 witness: the scenario has run to its end with entries of 400 KiB
S1Finished ==
    /\ S1Done(400 * 1024)
    /\ lru.stats.evictions >= 1

\* C11 as claimed: with entries of 400 KiB the scenario ends with "0/0/1"
\* evicted, {"0/0/0", "0/0/2", "0/0/3"} kept, evictions = 1 and
\* totalSize = 1200000
ScenarioS1AsClaimed ==
    S1Done(400 * 1024) =>
        /\ DOMAIN lru.entries = { S1Key(0), S1Key(2), S1Key(3) }
        /\ lru.stats.evictions = 1
        /\ lru.totalSize = 1200000

\* C12 (zoom invalidation is synchronous): when updateViewport is called with
\* a zoom different from lastZoom, then on return, with the zoom-debounce
\* callback still pending, loadGeneration has grown by exactly 1, lastZoom is
\* the new zoom, the queue is empty and the cache holds no entry of a
\* generation lower than the new loadGeneration
ZoomInvalidation ==
    [][ \A bounds \in Viewports, zoom \in Zooms :
          (UpdateViewport(bounds, zoom) /\ zoom # lastZoom) =>
             /\ loadGeneration' = loadGeneration + 1
             /\ lastZoom' = zoom
             /\ loadQueue' = << >>
             /\ \A k \in DOMAIN cache'.entries :
                   cache'.entries[k].generation >= loadGeneration'
             /\ zoomTimers' # << >>
             /\ zoomTimers'[Len(zoomTimers')] = Timer(bounds, zoom) ]_vars

\* C12 witness: a zoom change can be made while the cache holds an entry and
\* a key waits in the queue
ZoomChangeOverCachedTile ==
    /\ DOMAIN cache.entries # {}
    /\ loadQueue # << >>
    /\ resets < MaxResets
    /\ Len(zoomTimers) < MaxZoomTimers

\* the keys of the tiles visible in bounds at zoom
VisibleKeys(bounds, zoom) ==
    LET ts == GetVisibleTiles(bounds, zoom)
    IN { TileKey(ts[i].x, ts[i].y, ts[i].z) : i \in 1..Len(ts) }

\* the keys in the load queue q
QueuedKeys(q) == { q[i] : i \in 1..Len(q) }

\* C13 (debounced pan): an updateViewport call with the current zoom runs no
\* processViewChange itself and leaves exactly one pan callback pending, the
\* one carrying its own bounds (the callback of an earlier call of the burst
\* is gone); when the callback fires, processViewChange runs with those
\* bounds, the bounds of the last call, and no pan callback remains pending
PanDebounce ==
    [][ /\ \A bounds \in Viewports, zoom \in Zooms :
             (UpdateViewport(bounds, zoom) /\ zoom = lastZoom) =>
                /\ panDebounceTimer' = Timer(bounds, zoom)
                /\ UNCHANGED << loadQueue, tiles >>
        /\ FirePanTimer =>
             LET visible == VisibleKeys(panDebounceTimer.bounds, panDebounceTimer.zoom)
             IN /\ panDebounceTimer' = NoTimer
                /\ QueuedKeys(loadQueue') \ QueuedKeys(loadQueue) \subseteq visible
                /\ \A k \in visible :
                      \/ CacheHas(cache, k)
                      \/ k \in QueuedKeys(loadQueue')
                      \/ k \in loadingTiles ]_vars

\* C13 witness: a burst is under way: a pan callback is pending and a call
\* with other bounds, showing other tiles, can follow before it fires
PanBurstPending ==
    /\ panDebounceTimer.pending
    /\ \E bounds \in Viewports :
          VisibleKeys(bounds, lastZoom)
             # VisibleKeys(panDebounceTimer.bounds, panDebounceTimer.zoom)

\* C14 (no starts while zooming): while isZooming is true, processQueue
\* invokes no LoadTile and leaves the queue, the in-flight set, the tile
\* records and the cache as they were
NoStartsWhileZooming ==
    [][ (ProcessQueue /\ isZooming) =>
          UNCHANGED << outstanding, loadQueue, loadingTiles, tiles, cache >> ]_vars

\* C14 witness: isZooming is true while a startable key is queued and a slot
\* is free: only the isZooming test keeps processQueue from starting a load
QueuedWhileZooming ==
    /\ isZooming
    /\ Startable # {}
    /\ Cardinality(loadingTiles) < maxConcurrentLoads

\* C15 (clear resets everything), as claimed: after clear() the record map,
\* the queue, the in-flight set and the cache are empty, isZooming is false,
\* lastZoom and loadGeneration have their initial values and no debounce
\* callback armed before the clear is left to fire
ClearResetsEverything ==
    [][ Clear =>
          /\ tiles' = EmptyMap
          /\ loadQueue' = << >>
          /\ loadingTiles' = {}
          /\ DOMAIN cache'.entries = {}
          /\ isZooming' = FALSE
          /\ lastZoom' = -1
          /\ loadGeneration' = 0
          /\ panDebounceTimer' = NoTimer
          /\ zoomTimers' = << >> ]_vars

\* C16 (getTile on a cache hit), as claimed: for every key the cache holds,
\* getTile(key) returns a record in state LOADED carrying the cached payload,
\* also when the record map had no record for the key
GetTileOnCacheHit ==
    [][ \A key \in TileKeys :
          (GetTile(key) /\ CacheHas(cache, key)) =>
             /\ GetTileReturn(tiles', key).state = "loaded"
             /\ GetTileReturn(tiles', key).data = cache.entries[key].value ]_vars

\* the record of coord in the record map t is LOADED and carries a payload
LoadedIn(t, coord) ==
    /\ CoordKey(coord) \in DOMAIN t
    /\ t[CoordKey(coord)].state = "loaded"
    /\ t[CoordKey(coord)].data # 0

\* C17 (parent walk): findLoadedParent(coord) returns the record of the
\* nearest strict ancestor whose record is LOADED once getTile has consulted
\* it, never the tile itself; an ancestor whose record was LOADED before the
\* call is never passed over, so a LOADED immediate parent is the one
\* returned; it returns none exactly when no ancestor down to z = 0 is LOADED
ParentWalkNearest ==
    [][ ParentFind =>
          LET coord  == call.coord
              result == call'.result
          IN /\ result.found =>
                   /\ result.coord \in StrictAncestors(coord)
                   /\ LoadedIn(tiles', result.coord)
                   /\ result.tile = tiles'[CoordKey(result.coord)]
                   /\ \A a \in StrictAncestors(coord) :
                         a.z > result.coord.z => ~ LoadedIn(tiles', a)
             /\ result.found <=> (\E a \in StrictAncestors(coord) : LoadedIn(tiles', a))
             /\ \A a \in StrictAncestors(coord) :
                   LoadedIn(tiles, a) => (result.found /\ result.coord.z >= a.z)
             /\ (coord.z > 0 /\ LoadedIn(tiles, GetParentTile(coord))) =>
                   (result.found /\ result.coord = GetParentTile(coord)) ]_vars

\* C17 witness: the walk passed over an immediate parent that is not LOADED
\* and returned the grandparent, while the tile itself is LOADED
GrandparentReturned ==
    /\ call.op = "findLoadedParent"
    /\ call.done
    /\ call.coord.z = 2
    /\ LoadedIn(tiles, call.coord)
    /\ call.result.found
    /\ call.result.coord.z = 0

\* the keys of the records of t in state ERROR that are visible in bounds at zoom
VisibleErrors(t, bounds, zoom) ==
    { k \in VisibleKeys(bounds, zoom) : k \in DOMAIN t /\ t[k].state = "error" }

EnqueueRuleFor(bounds, zoom) ==
    /\ SubSeq(loadQueue', 1, Len(loadQueue)) = loadQueue
    /\ \A k \in VisibleKeys(bounds, zoom) :
          IF CacheHas(cache, k) \/ k \in QueuedKeys(loadQueue) \/ k \in loadingTiles
          THEN Cardinality({ i \in 1..Len(loadQueue') : loadQueue'[i] = k })
                  = Cardinality({ i \in 1..Len(loadQueue) : loadQueue[i] = k })
          ELSE /\ k \in QueuedKeys(loadQueue')
               /\ k \in DOMAIN tiles'
               /\ tiles'[k].state = "pending"
               /\ tiles'[k].generation = loadGeneration

\* C19 (processViewChange enqueue rule), as claimed: every visible key that
\* is not cached, queued or in flight is appended to the queue and has, when
\* processViewChange returns, a PENDING record of the current generation,
\* also when a record of an earlier generation or in state ERROR or LOADED
\* existed
EnqueueRule ==
    [][ /\ FirePanTimer =>
             EnqueueRuleFor(panDebounceTimer.bounds, panDebounceTimer.zoom)
        /\ FireZoomTimer =>
             EnqueueRuleFor(Head(zoomTimers).bounds, Head(zoomTimers).zoom) ]_vars

\* str is the decimal numeral of n: digits only, no leading zero, value n
IsNumeralOf(str, n) ==
    /\ str # << >>
    /\ \A i \in 1..Len(str) : IsDigit(str[i])
    /\ (Len(str) > 1 => str[1] # "0")
    /\ DecimalValue(str) = n

\* C20 (tile-key round trip): for non-negative integers x, y, z, tileKey
\* yields the canonical string "z/x/y" (the numerals of z, x and y separated
\* by two slashes) and parseTileKey of that string yields exactly (x, y, z)
KeyRoundTrip ==
    /\ (call.op = "tileKey" /\ call.step >= 1) =>
          \E i, j \in 1..Len(call.key) :
             /\ i < j
             /\ call.key[i] = "/"
             /\ call.key[j] = "/"
             /\ IsNumeralOf(SubSeq(call.key, 1, i - 1), call.z)
             /\ IsNumeralOf(SubSeq(call.key, i + 1, j - 1), call.x)
             /\ IsNumeralOf(SubSeq(call.key, j + 1, Len(call.key)), call.y)
    /\ (call.op = "tileKey" /\ call.step = 2) =>
          call.result = [ ok |-> TRUE,
                          z |-> [ nan |-> FALSE, value |-> call.z ],
                          x |-> [ nan |-> FALSE, value |-> call.x ],
                          y |-> [ nan |-> FALSE, value |-> call.y ] ]

\* C20 witness: the key "5/10/0", of differing coordinates and a two-digit
\* numeral, has been formatted and parsed
KeyParsed ==
    /\ call.op = "tileKey"
    /\ call.step = 2
    /\ call.key = << "5", "/", "1", "0", "/", "0" >>
    /\ call.x = 10

\* str is a non-empty run of decimal digits
IsDigitRun(str) ==
    /\ str # << >>
    /\ \A i \in 1..Len(str) : IsDigit(str[i])

\* key is exactly three '/'-separated non-negative decimal integers
WellFormedKey(key) ==
    \E i, j \in 1..Len(key) :
        /\ i < j
        /\ key[i] = "/"
        /\ key[j] = "/"
        /\ IsDigitRun(SubSeq(key, 1, i - 1))
        /\ IsDigitRun(SubSeq(key, i + 1, j - 1))
        /\ IsDigitRun(SubSeq(key, j + 1, Len(key)))

\* C21 (malformed keys), as claimed: parseTileKey returns none for every
\* string that is not exactly three '/'-separated non-negative decimal
\* integers, and never a coordinate
MalformedKeyIsNone ==
    (call.op = "parseTileKey" /\ call.done /\ ~ WellFormedKey(call.key)) =>
        ~ call.result.ok

\* the EPSG code a name denotes: the name without its "EPSG:" prefix
EpsgCode(name) ==
    IF Len(name) > 5 /\ SubSeq(name, 1, 5) = EpsgPrefix
    THEN SubSeq(name, 6, Len(name))
    ELSE name

\* C22 (createConverter): with codes given with or without the "EPSG:"
\* prefix, createConverter returns the Mercator-to-WGS84 pair for
\* (3857, 4326), the swapped pair for (4326, 3857), an identity pair when
\* source and target denote the same code, and throws for every other pair
ConverterPairs ==
    (call.op = "createConverter" /\ call.done) =>
        LET src == EpsgCode(call.source)
            tgt == EpsgCode(call.target)
            mercator == << "3", "8", "5", "7" >>
            wgs84    == << "4", "3", "2", "6" >>
        IN /\ (src = mercator /\ tgt = wgs84) =>
                 call.result = [ thrown |-> FALSE, forward |-> "webMercatorToWGS84",
                                 inverse |-> "wgs84ToWebMercator" ]
           /\ (src = wgs84 /\ tgt = mercator) =>
                 call.result = [ thrown |-> FALSE, forward |-> "wgs84ToWebMercator",
                                 inverse |-> "webMercatorToWGS84" ]
           /\ src = tgt =>
                 call.result = [ thrown |-> FALSE, forward |-> "identity",
                                 inverse |-> "identity" ]
           /\ (src # tgt /\ << src, tgt >> \notin { << mercator, wgs84 >>,
                                                   << wgs84, mercator >> }) =>
                 call.result.thrown

\* C22 witness: createConverter("EPSG:4326", "3857") has returned the swapped pair
PrefixedToBare ==
    /\ call.op = "createConverter"
    /\ call.done
    /\ call.source = << "E", "P", "S", "G", ":", "4", "3", "2", "6" >>
    /\ call.target = << "3", "8", "5", "7" >>
    /\ call.result.forward = "wgs84ToWebMercator"

\* the permutations of 1..n
IndexPermutations(n) ==
    { p \in [ 1..n -> 1..n ] : \A i, j \in 1..n : p[i] = p[j] => i = j }

\* (x - cx)^2 + (y - cy)^2
SquaredDistance(tile, center) ==
    (tile.x - center.x) * (tile.x - center.x) + (tile.y - center.y) * (tile.y - center.y)

StateEdges ==
    { << "pending", "loading" >>, << "loading", "loaded" >>,
      << "loading", "error" >>, << "loading", "pending" >> }

\* C25 (tile state machine), as claimed: a record is created in state PENDING
\* and its state changes only along the edges PENDING to LOADING, LOADING to
\* LOADED, LOADING to ERROR and LOADING to PENDING; in particular a record in
\* LOADED or ERROR never goes to LOADING
TileStateMachine ==
    [][ \A k \in DOMAIN tiles' :
          IF k \in DOMAIN tiles
          THEN \/ tiles'[k].state = tiles[k].state
               \/ << tiles[k].state, tiles'[k].state >> \in StateEdges
          ELSE tiles'[k].state = "pending" ]_vars

\* C26 (starts suppressed during the zoom-debounce window), as claimed: in
\* every reachable state in which a zoom-debounce callback is armed and has
\* not yet fired, isZooming is true
ZoomWindowSuppressed == zoomTimers # << >> => isZooming

\* C27 (isZooming is always cleared again), as claimed: whenever isZooming is
\* true, some armed zoom-debounce callback exists whose firing sets it to false
ZoomingHasTimer == isZooming => zoomTimers # << >>

\* C28 (one target zoom at a time), as claimed: every invocation of
\* processViewChange(bounds, zoom), from the pan or the zoom callback, has
\* zoom equal to lastZoom at that moment
OneTargetZoom ==
    [][ /\ FirePanTimer => panDebounceTimer.zoom = lastZoom
        /\ FireZoomTimer => Head(zoomTimers).zoom = lastZoom ]_vars

\* nothing is left to happen unless updateViewport is called again: no
\* debounce callback is armed, no LoadTile call is outstanding and
\* processQueue would start nothing
Quiescent ==
    /\ panDebounceTimer = NoTimer
    /\ zoomTimers = << >>
    /\ outstanding = EmptyBag
    /\ \/ isZooming
       \/ loadQueue = << >>
       \/ Cardinality(loadingTiles) >= maxConcurrentLoads

\* C29 (progress), as claimed: once updateViewport calls have stopped, all
\* timers have fired, processQueue has been called until it starts nothing
\* more and every LoadTile call has completed, the queue and the in-flight
\* set are empty and every tile enumerated by the last processViewChange is
\* either in the cache with a LOADED record or has an ERROR record
ProgressWhenSettled ==
    (Quiescent /\ call.op = "processViewChange") =>
        /\ loadQueue = << >>
        /\ loadingTiles = {}
        /\ \A k \in VisibleKeys(call.bounds, call.zoom) :
              /\ k \in DOMAIN tiles
              /\ \/ tiles[k].state = "loaded" /\ CacheHas(cache, k)
                 \/ tiles[k].state = "error"

\* C30 (in-flight reset on zoom change): when updateViewport is called with a
\* new zoom, then on return of handleZoomChange every key that was in the
\* in-flight set with a record of a generation older than the new
\* loadGeneration has left the in-flight set and its record is PENDING,
\* while its LoadTile call is still outstanding (no outstanding call is
\* removed); no key with a stale record remains in the in-flight set
InFlightReset ==
    [][ \A bounds \in Viewports, zoom \in Zooms :
          (UpdateViewport(bounds, zoom) /\ zoom # lastZoom) =>
             /\ \A k \in loadingTiles :
                   (k \in DOMAIN tiles /\ tiles[k].generation < loadGeneration') =>
                      /\ k \notin loadingTiles'
                      /\ tiles'[k].state = "pending"
                      /\ tiles'[k].generation = tiles[k].generation
                      /\ \E l \in DOMAIN outstanding' : l.key = k
             /\ \A k \in loadingTiles' :
                   ~ (k \in DOMAIN tiles' /\ tiles'[k].generation < loadGeneration')
             /\ BagCardinality(outstanding') = BagCardinality(outstanding) ]_vars

\* C30 witness: a zoom change has just reset two in-flight tiles: the
\* in-flight set is empty, their records are PENDING and their LoadTile calls
\* are outstanding, before the zoom-debounce callback has fired
TwoLoadsReset ==
    /\ isZooming
    /\ zoomTimers # << >>
    /\ loadingTiles = {}
    /\ \E l1, l2 \in DOMAIN outstanding :
          /\ l1.key # l2.key
          /\ l1.superseded /\ l2.superseded
          /\ l1.live /\ l2.live
          /\ tiles[l1.key].state = "pending"
          /\ tiles[l2.key].state = "pending"
          /\ tiles[l1.key].generation < loadGeneration
          /\ tiles[l2.key].generation < loadGeneration

\* the tile coordinate a key <<z, x, y>> stands for
KeyCoord(key) == [ x |-> key[2], y |-> key[3], z |-> key[1] ]

\* the order of the keys a processViewChange(bounds, zoom) step appends: the
\* keys already queued keep their places and the appended keys are in
\* non-decreasing squared distance from the center tile of the viewport
AppendedCenterOut(bounds, zoom) ==
    LET center == GetViewportCenterTile(bounds, zoom)
    IN /\ Len(loadQueue') >= Len(loadQueue)
       /\ SubSeq(loadQueue', 1, Len(loadQueue)) = loadQueue
       /\ \A i, j \in (Len(loadQueue) + 1)..Len(loadQueue') :
             i < j => SquaredDistance(KeyCoord(loadQueue'[i]), center)
                         <= SquaredDistance(KeyCoord(loadQueue'[j]), center)

\* C31 (enqueue and start order): the keys one processViewChange appends are
\* appended in non-decreasing squared distance from that viewport's center
\* tile, behind the keys already queued; processQueue takes keys from the
\* front of the queue only, and every key it takes is either started or not
\* startable (no record, or a stale one), so no tile is started while a tile
\* enqueued earlier and still startable waits
EnqueueStartOrder ==
    [][ /\ FirePanTimer =>
             AppendedCenterOut(panDebounceTimer.bounds, panDebounceTimer.zoom)
        /\ FireZoomTimer =>
             AppendedCenterOut(Head(zoomTimers).bounds, Head(zoomTimers).zoom)
        /\ ProcessQueue =>
             LET taken == Len(loadQueue) - Len(loadQueue')
             IN /\ taken >= 0
                /\ loadQueue' = SubSeq(loadQueue, taken + 1, Len(loadQueue))
                /\ \A i \in 1..taken :
                      \/ loadQueue[i] \in loadingTiles' \ loadingTiles
                      \/ i \notin Startable
                /\ \A k \in loadingTiles' \ loadingTiles :
                      \E i \in 1..taken : loadQueue[i] = k ]_vars

\* C31 witness: the 2 x 2 block was enqueued center-out, against the order
\* of enumeration, and the center tile alone has been started
CenterStartedFirst ==
    /\ loadingTiles = { << 1, 1, 1 >> }
    /\ loadQueue = << << 1, 0, 1 >>, << 1, 1, 0 >>, << 1, 0, 0 >> >>

Abs(n) == IF n < 0 THEN 0 - n ELSE n

\* |x - cx| + |y - cy|
ManhattanDistance(tile, center) == Abs(tile.x - center.x) + Abs(tile.y - center.y)

\* a and b are 4-connected neighbors
Adjacent(a, b) == a.z = b.z /\ ManhattanDistance(a, b) = 1

RECURSIVE ConnectedFrom(_, _, _)
\* R grown by the tiles of S adjacent to R or to center, until none is left
ConnectedFrom(R, S, center) ==
    LET more == { t \in S \ R : \E r \in R \cup {center} : Adjacent(t, r) }
    IN IF more = {} THEN R ELSE ConnectedFrom(R \cup more, S, center)

\* the tiles of S that are 4-connected to center through S
ConnectedTiles(S, center) == ConnectedFrom(S \cap {center}, S, center)

\* S is a full rectangle of tiles of one zoom level
IsRectangle(S) ==
    /\ S # {}
    /\ \A a, b \in S :
          /\ a.z = b.z
          /\ \A x \in Min(a.x, b.x)..Max(a.x, b.x), y \in Min(a.y, b.y)..Max(a.y, b.y) :
                [ x |-> x, y |-> y, z |-> a.z ] \in S

\* C32 (BFS prioritizer): prioritizeTilesBFS returns exactly the tiles of the
\* list that are 4-connected to the center through the list, each once, with
\* its key, in non-decreasing distance, the distance being the BFS level: 0
\* for the center, and for any other tile one more than the smallest distance
\* among its neighbors; for a rectangular set that contains the center these
\* are all the tiles of the set, the center first, each at distance
\* |x - cx| + |y - cy|
BfsPrioritizer ==
    (call.op = "prioritizeTilesBFS" /\ call.done) =>
        LET S   == { call.tiles[i] : i \in 1..Len(call.tiles) }
            c   == call.center
            res == call.result
            n   == Len(res)
            connected == ConnectedTiles(S, c)
            level(t) == IF t = c THEN 0
                        ELSE res[CHOOSE i \in 1..n : res[i].coord = t].distance
        IN /\ { res[i].coord : i \in 1..n } = connected
           /\ \A i, j \in 1..n : res[i].coord = res[j].coord => i = j
           /\ \A i \in 1..n :
                 /\ res[i].key = TileKey(res[i].coord.x, res[i].coord.y, res[i].coord.z)
                 /\ res[i].distance = 0 <=> res[i].coord = c
                 /\ res[i].distance > 0 =>
                       LET near == { t \in connected \cup {c} :
                                       Adjacent(t, res[i].coord) }
                       IN /\ \E t \in near : level(t) = res[i].distance - 1
                          /\ \A t \in near : level(t) >= res[i].distance - 1
           /\ \A i \in 1..(n - 1) : res[i].distance <= res[i + 1].distance
           /\ (IsRectangle(S) /\ c \in S) =>
                 /\ { res[i].coord : i \in 1..n } = S
                 /\ res[1].coord = c
                 /\ \A i \in 1..n :
                       res[i].distance = ManhattanDistance(res[i].coord, c)

\* C32 witness: the full block has been prioritized from one of its corners,
\* the opposite corner coming last
BlockFromCorner ==
    /\ call.op = "prioritizeTilesBFS"
    /\ call.done
    /\ Len(call.tiles) = (PrioMaxCoord + 1) * (PrioMaxCoord + 1)
    /\ Len(call.result) = Len(call.tiles)
    /\ call.result[Len(call.result)].distance = 2 * PrioMaxCoord

\* parent is an ancestor of child (or child itself): parent.z <= child.z and
\* (child.x >> d, child.y >> d) = (parent.x, parent.y) for d = child.z - parent.z
IsAncestor(parent, child) ==
    /\ parent.z <= child.z
    /\ child.x \div (2 ^ (child.z - parent.z)) = parent.x
    /\ child.y \div (2 ^ (child.z - parent.z)) = parent.y

\* C33 (child region in parent), as claimed: getChildRegionInParent returns
\* none whenever parent is not an ancestor of child; when it is, the region
\* lies inside the parent's unit square, 0 <= x, 0 <= y, x + width <= 1,
\* y + height <= 1, with width = height = 1 / 2^d
ChildRegion ==
    (call.op = "getChildRegionInParent" /\ call.done) =>
        LET r == call.result
        IN IF IsAncestor(call.parent, call.child)
           THEN /\ ~ r.none
                /\ r.scale = 2 ^ (call.child.z - call.parent.z)
                /\ r.width = 1
                /\ r.height = 1
                /\ 0 <= r.x
                /\ 0 <= r.y
                /\ r.x + r.width <= r.scale
                /\ r.y + r.height <= r.scale
           ELSE r.none

\* C34 (a cache set never fails observably): after set(key, value, size,
\* generation) returns, for any size, one larger than maxSize included, and
\* any prior content, the cache holds key with exactly that value, size and
\* generation: the entry just written is never the one evicted by that set
SetNeverFails ==
    [][ \A key \in CacheKeys, value \in Payloads, size \in Sizes, generation \in LruGens :
          LruSet(key, value, size, generation) =>
             /\ key \in DOMAIN lru'.entries
             /\ lru'.entries[key].value = value
             /\ lru'.entries[key].size = size
             /\ lru'.entries[key].generation = generation
             /\ CacheGetValue(lru', key) = value ]_vars

\* C34 witness: an entry larger than maxSize has just been written over a
\* cache that held two entries, and it is the one that remains
OversizedWritten ==
    /\ lru.stats.evictions = 2
    /\ \E k \in DOMAIN lru.entries :
          /\ DOMAIN lru.entries = {k}
          /\ lru.entries[k].size > lru.maxSize
          /\ lru.entries[k].lastAccess = lru.accessCounter
          /\ lru.accessCounter = 3

\* C35 (LOADING iff in flight), as claimed: in every reachable state, every
\* key with a record has its record in state LOADING if and only if the key
\* is in the in-flight set, across zoom changes, clear() and the completion
\* of loads started before them
LoadingIffInFlight ==
    \A k \in DOMAIN tiles : (tiles[k].state = "loading") <=> (k \in loadingTiles)

\* C36 (cache generations): in every reachable state every entry of the
\* loader's cache carries a generation equal to loadGeneration, after any
\* interleaving of updateViewport, the timers, processQueue, getTile,
\* findLoadedParent, clear() and load completions
CacheGenerationCurrent ==
    \A k \in DOMAIN cache.entries : cache.entries[k].generation = loadGeneration

\* C36 witness: after a clear() and a zoom change, a load started before the
\* clear() has been admitted to the cache
AdmittedAfterClear ==
    /\ loadGeneration >= 1
    /\ \E k \in DOMAIN cache.entries : k \notin DOMAIN tiles

\* C37 (payload memory is bounded by the cache), as claimed: in every
\* reachable state every record that is LOADED and holds a payload has its
\* key in the cache
PayloadInCache ==
    \A k \in DOMAIN tiles :
        (tiles[k].state = "loaded" /\ tiles[k].data # 0) => CacheHas(cache, k)

\* C38 (one LoadTile call per key), as claimed: at most one LoadTile call per
\* tile key is outstanding at any moment, for every interleaving of
\* updateViewport, processQueue, clear() and completions
OneLoadPerKey ==
    \A l1, l2 \in DOMAIN outstanding :
        /\ outstanding[l1] <= 1
        /\ l1.key = l2.key => l1 = l2

\* C39 (a load started before clear() has no effect after it), as claimed:
\* when a LoadTile call started before a clear() completes after it, the
\* completion adds no entry to the cache, changes no record and removes no
\* key from the in-flight set that belongs to a load started after the clear()
NoEffectAfterClear ==
    [][ \A l \in DOMAIN outstanding :
          (Completes(l) /\ ~ l.live) =>
             /\ cache'.entries = cache.entries
             /\ tiles' = tiles
             /\ \A m \in DOMAIN outstanding :
                   (m.live /\ m.key \in loadingTiles) => m.key \in loadingTiles' ]_vars

=============================================================================
